---- MODULE Spec2Model ----
(***************************************************************************)
(* Model of the cncjs numpad pendant: the key mapper and the ack-gated     *)
(* smooth-jog timer (src/src/actions.ts), the G-code senders              *)
(* (gcode-sender.ts, gcode-grbl.ts, gcode-marlin.ts) and the connector     *)
(* (connector.ts).  Lengths are in mm, feedrates in mm/min, moveDistance   *)
(* in tenths of a mm, timer delays in ms.                                  *)
(***************************************************************************)
EXTENDS Integers, Sequences, FiniteSets, TLC

(* ------------------------------ bounds --------------------------------- *)
MaxInFlight == 7      \* commands the controller has received and not answered
MaxSockets == 2       \* sockets ever created by io.connect
MaxTimers == 2        \* setInterval timers alive at once

(* ------------------------- program constants --------------------------- *)
SINGLESTEP_LARGE_JOGDISTANCE == 100
SINGLESTEP_MEDIUM_JOGDISTANCE == 10
SINGLESTEP_SMALL_JOGDISTANCE == 1
DEFAULT_MOVE_DISTANCE == SINGLESTEP_MEDIUM_JOGDISTANCE
SMOOTHJOG_COMMANDS_INTERVAL == 150
SMOOTHJOG_JOGSPEED == 2000
SMOOTHJOG_JOGSTEP == (SMOOTHJOG_JOGSPEED * SMOOTHJOG_COMMANDS_INTERVAL) \div 60000
OPEN_RETRY_INTERVAL == 2000

KEYCODE_UNKNOWN == 0
BACKSPACE == 42
TAB == 43
NUMLOCKCLEAR == 83
KP_DIVIDE == 84
KP_MULTIPLY == 85
KP_MINUS == 86
KP_PLUS == 87
KP_ENTER == 88
KP_1 == 89
KP_2 == 90
KP_3 == 91
KP_4 == 92
KP_5 == 93
KP_6 == 94
KP_7 == 95
KP_8 == 96
KP_9 == 97
KP_0 == 98
KP_PERIOD == 99

\* the key codes the HID decoder delivers in the system specification
Keys == {KEYCODE_UNKNOWN, 255, KP_6, KP_0, TAB, KP_DIVIDE}

\* every key code of KEY_CODES and one code outside of it
AllKeys ==
    {KEYCODE_UNKNOWN, BACKSPACE, TAB, NUMLOCKCLEAR, KP_DIVIDE, KP_MULTIPLY,
     KP_MINUS, KP_PLUS, KP_ENTER, KP_1, KP_2, KP_3, KP_4, KP_5, KP_6, KP_7,
     KP_8, KP_9, KP_0, KP_PERIOD, 255}

DirectionKeys == {KP_MINUS, KP_PLUS, KP_1, KP_2, KP_3, KP_4, KP_6, KP_7, KP_8, KP_9}
OneShotKeys == {KP_5, TAB, KP_0, KP_PERIOD, KP_ENTER, NUMLOCKCLEAR}

(* ------------------------- serial lines -------------------------------- *)
\* a serial line is a sequence of characters
LineOk == <<"o", "k">>
LineErr15 == <<"e", "r", "r", "o", "r", ":", "1", "5">>
LineErr9 == <<"e", "r", "r", "o", "r", ":", "9">>
LineStatus == <<"<", "I", "d", "l", "e", ">">>

startsWith(data, prefix) ==
    /\ Len(data) >= Len(prefix)
    /\ SubSeq(data, 1, Len(prefix)) = prefix

(* ------------------------- gcode-grbl.ts: serial lines ----------------- *)
\* lines of a Grbl probe report and lines that resemble one
\* [PRB:0.000,0.000,-12.340:1]   a probe report, contact made
PrbHit ==
    <<"[", "P", "R", "B", ":", "0", ".", "0", "0", "0", ",", "0", ".", "0",
      "0", "0", ",", "-", "1", "2", ".", "3", "4", "0", ":", "1", "]">>
\* [PRB:1.500,-2.250,-10.000:1]   a second report, contact made
PrbHit2 ==
    <<"[", "P", "R", "B", ":", "1", ".", "5", "0", "0", ",", "-", "2", ".",
      "2", "5", "0", ",", "-", "1", "0", ".", "0", "0", "0", ":", "1", "]">>
\* [PRB:1.500,-2.250,-10.000:0]   a probe report, no contact
PrbMiss ==
    <<"[", "P", "R", "B", ":", "1", ".", "5", "0", "0", ",", "-", "2", ".",
      "2", "5", "0", ",", "-", "1", "0", ".", "0", "0", "0", ":", "0", "]">>
\* [PRB:abc:1]   bracketed, inner text is no coordinate list
PrbWords ==
    <<"[", "P", "R", "B", ":", "a", "b", "c", ":", "1", "]">>
\* [PRB:1,2:1]   bracketed, two coordinate fields only
PrbTwoFields ==
    <<"[", "P", "R", "B", ":", "1", ",", "2", ":", "1", "]">>
\* [PRB:1,2,3:12]   success flag of two digits
PrbLongFlag ==
    <<"[", "P", "R", "B", ":", "1", ",", "2", ",", "3", ":", "1", "2", "]">>
\* [PRB:1,2,3:1   closing bracket missing
PrbNoClose ==
    <<"[", "P", "R", "B", ":", "1", ",", "2", ",", "3", ":", "1">>
\* PRB:1,2,3:1]   opening bracket missing
PrbNoOpen ==
    <<"P", "R", "B", ":", "1", ",", "2", ",", "3", ":", "1", "]">>
\* [PRB:1,2,3:x]   success flag is no digit
PrbNoFlag ==
    <<"[", "P", "R", "B", ":", "1", ",", "2", ",", "3", ":", "x", "]">>

ProbeLines ==
    {PrbHit, PrbHit2, PrbMiss, PrbWords, PrbTwoFields, PrbLongFlag,
     PrbNoClose, PrbNoOpen, PrbNoFlag, LineOk}

(* ------------------------- JavaScript numbers and strings -------------- *)
\* a number: NaN, or a value in thousandths
Num(v) == [nan |-> FALSE, v |-> v]
NaN == [nan |-> TRUE, v |-> 0]
Minus(a, b) == IF a.nan \/ b.nan THEN NaN ELSE Num(a.v - b.v)
Boolean(a) == ~a.nan /\ a.v # 0

Digits == {"0", "1", "2", "3", "4", "5", "6", "7", "8", "9"}
DigitSeq == <<"0", "1", "2", "3", "4", "5", "6", "7", "8", "9">>
DigitVal(c) == (CHOOSE i \in 1..10 : DigitSeq[i] = c) - 1

RECURSIVE ToNat(_)
ToNat(s) ==
    IF s = <<>> THEN 0
    ELSE 10 * ToNat(SubSeq(s, 1, Len(s) - 1)) + DigitVal(s[Len(s)])

IndexesOf(s, c) == {i \in 1..Len(s) : s[i] = c}
First(S) == CHOOSE i \in S : \A j \in S : i <= j
Last(S) == CHOOSE i \in S : \A j \in S : j <= i

\* Number(s) of a string without blanks: a signed decimal literal gives its
\* value (fraction digits after the third dropped), "" gives 0, any other
\* text NaN
Number(s) ==
    LET signed == s # <<>> /\ s[1] \in {"-", "+"}
        body == IF signed THEN Tail(s) ELSE s
        dots == IndexesOf(body, ".")
        dot == IF dots = {} THEN Len(body) + 1 ELSE First(dots)
        whole == SubSeq(body, 1, dot - 1)
        frac == SubSeq(body, dot + 1, Len(body))
        frac3 == SubSeq(frac \o <<"0", "0", "0">>, 1, 3)
        literal == /\ Cardinality(dots) <= 1
                   /\ \A i \in 1..Len(whole) : whole[i] \in Digits
                   /\ \A i \in 1..Len(frac) : frac[i] \in Digits
                   /\ Len(whole) + Len(frac) > 0
        abs == 1000 * ToNat(whole) + ToNat(frac3)
    IN  IF s = <<>> THEN Num(0)
        ELSE IF ~literal THEN NaN
        ELSE IF signed /\ s[1] = "-" THEN Num(0 - abs) ELSE Num(abs)

\* values[k] of an array, undefined past its end: Number(undefined) is NaN
NumberAt(values, k) == IF k <= Len(values) THEN Number(values[k]) ELSE NaN

\* String.split(',')
RECURSIVE split(_)
split(s) ==
    LET commas == IndexesOf(s, ",")
    IN  IF commas = {} THEN <<s>>
        ELSE <<SubSeq(s, 1, First(commas) - 1)>>
             \o split(SubSeq(s, First(commas) + 1, Len(s)))

(* ------------------------- gcode-grbl.ts: ZProbeRecord ----------------- *)
\* new ZProbeRecord()
ZProbeRecord == [x |-> Num(0), y |-> Num(0), z |-> Num(0), success |-> FALSE]

\* ZProbeRecord.isValidString: data.match(/^\[PRB:.*:\d\]$/) != null
isValidString(data) ==
    /\ Len(data) >= 8
    /\ startsWith(data, <<"[", "P", "R", "B", ":">>)
    /\ \A i \in 6..(Len(data) - 3) : data[i] # "\n"
    /\ data[Len(data) - 2] = ":"
    /\ data[Len(data) - 1] \in Digits
    /\ data[Len(data)] = "]"

\* data.match(/:(.*):/): the text between the first and the last colon
valuesMatch(data) ==
    LET colons == IndexesOf(data, ":")
    IN  IF Cardinality(colons) < 2 THEN [found |-> FALSE, group |-> <<>>]
        ELSE [found |-> TRUE,
              group |-> SubSeq(data, First(colons) + 1, Last(colons) - 1)]

\* data.match(/.*:(\d)/): the digit after the last colon that has one
successMatch(data) ==
    LET hits == {i \in 1..(Len(data) - 1) :
                    data[i] = ":" /\ data[i + 1] \in Digits}
    IN  IF hits = {} THEN [found |-> FALSE, group |-> <<>>]
        ELSE [found |-> TRUE, group |-> <<data[Last(hits) + 1]>>]

\* updateFromString without the validity check
updateFromStringUnchecked(rec, data) ==
    LET vm == valuesMatch(data)
        values == split(vm.group)
        sm == successMatch(data)
    IN  [x |-> IF vm.found THEN NumberAt(values, 1) ELSE rec.x,
         y |-> IF vm.found THEN NumberAt(values, 2) ELSE rec.y,
         z |-> IF vm.found THEN NumberAt(values, 3) ELSE rec.z,
         success |-> IF sm.found THEN Boolean(Number(sm.group))
                     ELSE rec.success]

\* ZProbeRecord.updateFromString
updateFromString(rec, data) ==
    IF ~isValidString(data) THEN rec
    ELSE LET vm == valuesMatch(data)
             values == split(vm.group)
             sm == successMatch(data)
         IN  [x |-> IF vm.found THEN NumberAt(values, 1) ELSE rec.x,
              y |-> IF vm.found THEN NumberAt(values, 2) ELSE rec.y,
              z |-> IF vm.found THEN NumberAt(values, 3) ELSE rec.z,
              success |-> IF sm.found THEN Boolean(Number(sm.group))
                          ELSE rec.success]

(* ------------------------- messages ------------------------------------ *)
Msg(ev, directive, code, x, y, z, f) ==
    [ev |-> ev, directive |-> directive, code |-> code,
     x |-> x, y |-> y, z |-> z, f |-> f]

Gcode(code) == Msg("command", "gcode", code, 0, 0, 0, 0)
Command(directive) == Msg("command", directive, "", 0, 0, 0, 0)
OpenRequest == Msg("open", "", "", 0, 0, 0, 0)
JogCancel == Gcode("x85")

IsJogMsg(m) == m.code \in {"$J=", "G91 G0"}

VARIABLES
    simulate,            \* options.simulate
    controllerType,      \* options.controllerType
    hidPresent,          \* a real keyboard was opened by NumpadController
    running,             \* the process has not called process.exit
    attached,            \* NumpadController.connected
    moveDistance,        \* numpadState.moveDistance
    previousKeyCode,     \* numpadState.previousKeyCode (0: undefined)
    axisInstructions,    \* Actions.axisInstructions
    smoothJogging,       \* Actions.smoothJogging
    smoothJoggingTimer,  \* delay of the pending jog timeout (0: none)
    jogTimers,           \* jog timeouts scheduled and neither fired nor cleared
    joggingAck,          \* Actions.joggingAck
    socket,              \* Connector.socket (0: undefined)
    nsock,               \* sockets created so far
    openSockets,         \* sockets not closed
    connected,           \* sockets whose transport is connected
    serialConnected,     \* Connector.serialConnected
    serial,              \* Connector.serial interval handle (0: undefined)
    activeTimers,        \* interval timers that are running
    inflight,            \* commands delivered to the controller, unanswered
    out,                 \* messages emitted on a socket by the last step
    logged,              \* messages only logged by the last step
    thrown,              \* the last step ended in an uncaught TypeError
    jogSent,             \* a jog command has been emitted on a socket
    zProbeRecord,        \* GcodeGrbl.zProbeRecord
    wasSuccess,          \* zProbeRecord.success before the last probe line
    last                 \* the step taken last: handler, key, line, ack set

vars == <<simulate, controllerType, hidPresent, running, attached,
          moveDistance, previousKeyCode, axisInstructions, smoothJogging,
          smoothJoggingTimer, jogTimers, joggingAck, socket, nsock,
          openSockets,
          connected, serialConnected, serial, activeTimers, inflight, out,
          logged, thrown, jogSent, zProbeRecord, wasSuccess, last>>

optVars == <<simulate, controllerType, hidPresent>>
probeVars == <<zProbeRecord, wasSuccess>>
actionsVars == <<moveDistance, previousKeyCode, axisInstructions,
                 smoothJogging, smoothJoggingTimer, jogTimers, joggingAck>>
connVars == <<socket, nsock, openSockets, connected, serialConnected,
              serial, activeTimers>>

Step(op, key, data, acked) ==
    [op |-> op, key |-> key, data |-> data, acked |-> acked]

XYZCoords == [move_x_axis |-> 0, move_y_axis |-> 0, move_z_axis |-> 0]

(* ------------------------- pure helpers -------------------------------- *)
RECURSIVE SqrtIter(_, _)
SqrtIter(n, r) ==
    LET r2 == (r + n \div r) \div 2
    IN IF r2 >= r THEN r ELSE SqrtIter(n, r2)

\* Math.sqrt, rounded down to a whole mm
Sqrt(n) == IF n = 0 THEN 0 ELSE SqrtIter(n, n)

Coords(x, y, z) == [move_x_axis |-> x, move_y_axis |-> y, move_z_axis |-> z]

(* ------------------------- gcode-sender.ts ----------------------------- *)
\* a relative move that leaves the controller in relative mode
moveGantryRelativeNoRestore(x, y, z, mmPerMin) ==
    <<Gcode("G21"), Msg("command", "gcode", "G91 G0", x, y, z, mmPerMin)>>

\* GcodeSender.moveGantryRelative
moveGantryRelative(x, y, z, mmPerMin) ==
    <<Gcode("G21"), Msg("command", "gcode", "G91 G0", x, y, z, mmPerMin),
      Gcode("G90")>>

\* the Grbl jog without the slow-down
grblMoveGantryJogToXYZFull(x, y, z, mmPerMin) ==
    <<Gcode("G21"), Gcode("G91"),
      Msg("command", "gcode", "$J=", x, y, z, mmPerMin), Gcode("G90")>>

\* GcodeGrbl.moveGantryJogToXYZ
grblMoveGantryJogToXYZ(x, y, z, mmPerMin) ==
    <<Gcode("G21"), Gcode("G91"),
      Msg("command", "gcode", "$J=", x, y, z, (mmPerMin * 98) \div 100),
      Gcode("G90")>>

\* a dispatch in which every sender class jogs as GcodeGrbl does
moveGantryJogToXYZGrblOnly(ct, x, y, z, mmPerMin) ==
    grblMoveGantryJogToXYZ(x, y, z, mmPerMin)

\* moveGantryJogToXYZ, dispatched on the sender class
moveGantryJogToXYZ(ct, x, y, z, mmPerMin) ==
    IF ct = "grbl" THEN grblMoveGantryJogToXYZ(x, y, z, mmPerMin)
    ELSE moveGantryRelative(x, y, z, mmPerMin)

moveGantryWCSHomeXY == <<Gcode("G54 G0 G90 X0 Y0")>>
recordGantryZeroWCSX == <<Gcode("G10 L20 P1 X0")>>
recordGantryZeroWCSY == <<Gcode("G10 L20 P1 Y0")>>
recordGantryZeroWCSZ == <<Gcode("G10 L20 P1 Z0")>>
controllerUnlock == <<Command("unlock")>>

performHoming(ct) ==
    IF ct = "marlin" THEN <<Gcode("G28 X Y")>> ELSE <<Command("homing")>>

\* the probe entry point called by onUse
performZProbingTwice(ct) ==
    IF ct = "marlin" THEN <<Gcode("M28 Z")>>
    ELSE <<Gcode("G91"), Gcode("G38.2"), Gcode("G90")>>

(* ------------------------- actions.ts: key mapper ---------------------- *)
jogStepXY == SMOOTHJOG_JOGSTEP * SMOOTHJOG_JOGSPEED
jogStepZ == (SMOOTHJOG_JOGSTEP * SMOOTHJOG_JOGSPEED) \div 16

\* a key switch with the two Z keys exchanged
keyCoordsZExchanged(keyCode) ==
    CASE keyCode = KP_MINUS -> Coords(0, 0, -jogStepZ)
      [] keyCode = KP_PLUS -> Coords(0, 0, jogStepZ)
      [] keyCode = KP_4 -> Coords(-jogStepXY, 0, 0)
      [] keyCode = KP_6 -> Coords(jogStepXY, 0, 0)
      [] keyCode = KP_8 -> Coords(0, jogStepXY, 0)
      [] keyCode = KP_2 -> Coords(0, -jogStepXY, 0)
      [] keyCode = KP_1 -> Coords(-jogStepXY, -jogStepXY, 0)
      [] keyCode = KP_9 -> Coords(jogStepXY, jogStepXY, 0)
      [] keyCode = KP_3 -> Coords(jogStepXY, -jogStepXY, 0)
      [] keyCode = KP_7 -> Coords(-jogStepXY, jogStepXY, 0)
      [] OTHER -> XYZCoords

\* a key switch whose default case keeps a +X intent
keyCoordsUnknownMoves(keyCode) ==
    CASE keyCode = KP_MINUS -> Coords(0, 0, jogStepZ)
      [] keyCode = KP_PLUS -> Coords(0, 0, -jogStepZ)
      [] keyCode = KP_4 -> Coords(-jogStepXY, 0, 0)
      [] keyCode = KP_6 -> Coords(jogStepXY, 0, 0)
      [] keyCode = KP_8 -> Coords(0, jogStepXY, 0)
      [] keyCode = KP_2 -> Coords(0, -jogStepXY, 0)
      [] keyCode = KP_1 -> Coords(-jogStepXY, -jogStepXY, 0)
      [] keyCode = KP_9 -> Coords(jogStepXY, jogStepXY, 0)
      [] keyCode = KP_3 -> Coords(jogStepXY, -jogStepXY, 0)
      [] keyCode = KP_7 -> Coords(-jogStepXY, jogStepXY, 0)
      [] keyCode \in OneShotKeys \cup {KP_DIVIDE, KP_MULTIPLY, BACKSPACE}
            -> XYZCoords
      [] OTHER -> Coords(jogStepXY, 0, 0)

\* the XYZCoords onUse builds for a key (the switch with useJogging true)
keyCoords(keyCode) ==
    CASE keyCode = KP_MINUS -> Coords(0, 0, jogStepZ)
      [] keyCode = KP_PLUS -> Coords(0, 0, -jogStepZ)
      [] keyCode = KP_4 -> Coords(-jogStepXY, 0, 0)
      [] keyCode = KP_6 -> Coords(jogStepXY, 0, 0)
      [] keyCode = KP_8 -> Coords(0, jogStepXY, 0)
      [] keyCode = KP_2 -> Coords(0, -jogStepXY, 0)
      [] keyCode = KP_1 -> Coords(-jogStepXY, -jogStepXY, 0)
      [] keyCode = KP_9 -> Coords(jogStepXY, jogStepXY, 0)
      [] keyCode = KP_3 -> Coords(jogStepXY, -jogStepXY, 0)
      [] keyCode = KP_7 -> Coords(-jogStepXY, jogStepXY, 0)
      [] OTHER -> XYZCoords

keyMessagesNoUnlock(keyCode, ct) ==
    CASE keyCode = KP_5 -> moveGantryWCSHomeXY
      [] keyCode = TAB ->
            recordGantryZeroWCSX \o recordGantryZeroWCSY \o recordGantryZeroWCSZ
      [] keyCode = KP_PERIOD -> performZProbingTwice(ct)
      [] keyCode = KP_ENTER -> performHoming(ct)
      [] keyCode = NUMLOCKCLEAR -> recordGantryZeroWCSX \o recordGantryZeroWCSY
      [] OTHER -> <<>>

\* the messages onUse hands to sendMessage for a key
keyMessages(keyCode, ct) ==
    CASE keyCode = KP_5 -> moveGantryWCSHomeXY
      [] keyCode = TAB ->
            recordGantryZeroWCSX \o recordGantryZeroWCSY \o recordGantryZeroWCSZ
      [] keyCode = KP_0 -> controllerUnlock
      [] keyCode = KP_PERIOD -> performZProbingTwice(ct)
      [] keyCode = KP_ENTER -> performHoming(ct)
      [] keyCode = NUMLOCKCLEAR -> recordGantryZeroWCSX \o recordGantryZeroWCSY
      [] OTHER -> <<>>

\* a moveDistance that every other key resets to the default
keyMoveDistanceReset(keyCode, distance) ==
    CASE keyCode = KP_DIVIDE -> SINGLESTEP_SMALL_JOGDISTANCE
      [] keyCode = KP_MULTIPLY -> SINGLESTEP_MEDIUM_JOGDISTANCE
      [] keyCode = BACKSPACE -> SINGLESTEP_LARGE_JOGDISTANCE
      [] OTHER -> DEFAULT_MOVE_DISTANCE

\* numpadState.moveDistance after the key
keyMoveDistance(keyCode, distance) ==
    CASE keyCode = KP_DIVIDE -> SINGLESTEP_SMALL_JOGDISTANCE
      [] keyCode = KP_MULTIPLY -> SINGLESTEP_MEDIUM_JOGDISTANCE
      [] keyCode = BACKSPACE -> SINGLESTEP_LARGE_JOGDISTANCE
      [] OTHER -> distance

\* a previousKeyCode that stores the codes of KEY_CODES only
keyPreviousKnownOnly(keyCode, previous) ==
    IF keyCode # KEYCODE_UNKNOWN /\ keyCode # 255 THEN keyCode ELSE previous

\* a previousKeyCode that forgets a key pressed twice
keyPreviousToggle(keyCode, previous) ==
    IF keyCode = previous THEN KEYCODE_UNKNOWN ELSE keyCode

\* numpadState.previousKeyCode after the key
keyPrevious(keyCode, previous) ==
    IF keyCode # KEYCODE_UNKNOWN THEN keyCode ELSE previous

(* ------------------------- actions.ts: jog timer ----------------------- *)
isZero(ai) ==
    ai.move_x_axis = 0 /\ ai.move_y_axis = 0 /\ ai.move_z_axis = 0

\* a restartSmoothJog that schedules the timeout for a non-zero intent only
restartSmoothJogOnIntent(ai) ==
    IF isZero(ai) THEN 0 ELSE SMOOTHJOG_COMMANDS_INTERVAL

\* Actions.restartSmoothJog: the delay of the timeout it schedules, the
\* same whatever the intent ai is
restartSmoothJog(ai) == SMOOTHJOG_COMMANDS_INTERVAL

\* a clearTimeout that leaves the timeout pending
clearTimeoutLeaves(pending) == pending

\* clearTimeout(this.smoothJoggingTimer): the timeout the handle names is
\* the one scheduled last, pending whenever any is
clearTimeout(pending) == IF pending > 0 THEN pending - 1 ELSE 0

jogDelayFull(ack) == SMOOTHJOG_COMMANDS_INTERVAL

\* the delay jogFunction passes to setTimeout
jogDelay(ack) ==
    IF ack THEN SMOOTHJOG_COMMANDS_INTERVAL
    ELSE SMOOTHJOG_COMMANDS_INTERVAL \div 2

jogSendsOnZero(ai, ack) == ack

\* a jogFunction that does not wait for the acknowledgment
jogSendsUngated(ai, ack) == ~isZero(ai)

\* jogFunction reaches jogGantry
jogSends(ai, ack) == ~isZero(ai) /\ ack

\* Actions.jogGantry: the messages for one jog
jogGantry(ct, x, y, z) ==
    LET dist == Sqrt(x * x + y * y + z * z)
        speed == (dist * 60000) \div SMOOTHJOG_COMMANDS_INTERVAL
    IN moveGantryJogToXYZ(ct, x, y, z, speed)

isAckOkOnly(data) == startsWith(data, LineOk)

\* the line test of the serialport:read handler of Actions
isAck(data) == startsWith(data, LineOk) \/ startsWith(data, LineErr15)

(* ------------------------- gcode-grbl.ts: probe observer --------------- *)
\* options.zProbeThickness as the console defaults it, in thousandths
zProbeThickness == Num(19500)
\* GcodeSender.retractionDistance, in thousandths
RETRACTION_DISTANCE == 4000

\* the offset command `G10 L20 P1 Z${dz}`; z carries dz in thousandths
SetOffsetZ(dz) ==
    IF dz.nan THEN Gcode("G10 L20 P1 ZNaN")
    ELSE Msg("command", "gcode", "G10 L20 P1 Z", 0, 0, dz.v, 0)

\* the retract move `G0 Z${retractionDistance}`
Retract == Msg("command", "gcode", "G0 Z", 0, 0, RETRACTION_DISTANCE, 0)

\* dz with the plate thickness left out
probeOffsetNoPlate(rec) == rec.z

\* dz = zProbeRecord.z - Number(options.zProbeThickness)
probeOffset(rec) == Minus(rec.z, zProbeThickness)

\* the probe observer that acts on a change of success from false to true
grblProbeMessagesOnEdge(rec, data) ==
    IF isValidString(data) /\ updateFromString(rec, data).success
       /\ ~rec.success
    THEN <<Gcode("G91"), SetOffsetZ(probeOffset(updateFromString(rec, data))),
           Retract, Gcode("G90")>>
    ELSE <<>>

\* the serialport:read handler of the GcodeGrbl constructor: what it hands
\* to sendMessage for the line data when the record is rec
grblProbeMessages(rec, data) ==
    IF isValidString(data) /\ updateFromString(rec, data).success
    THEN <<Gcode("G91"), SetOffsetZ(probeOffset(updateFromString(rec, data))),
           Retract, Gcode("G90")>>
    ELSE <<>>

\* the same handler: the record it leaves
grblProbeRecord(rec, data) ==
    IF isValidString(data) THEN updateFromString(rec, data) ELSE rec

(* ------------------------- gcode-sender.ts: sendMessage ---------------- *)
\* sendMessage emits on the socket (otherwise it logs)
socketReady(sim, serialOk) == ~sim /\ serialOk

(* ------------------------- state after construction -------------------- *)
\* console.ts: new NumpadController, new Connector (attach fires at once and
\* runs connectServer), new Actions (subscribes, restartSmoothJog)
Init ==
    /\ simulate \in BOOLEAN
    /\ controllerType \in {"grbl", "marlin"}
    /\ hidPresent \in (IF simulate THEN BOOLEAN ELSE {TRUE})
    /\ running = TRUE
    /\ attached = hidPresent
    /\ moveDistance = DEFAULT_MOVE_DISTANCE
    /\ previousKeyCode = 0
    /\ axisInstructions = XYZCoords
    /\ smoothJogging = TRUE
    /\ smoothJoggingTimer = restartSmoothJog(XYZCoords)
    /\ jogTimers = clearTimeout(0) + 1
    /\ joggingAck = TRUE
    /\ socket = (IF simulate THEN 0 ELSE 1)
    /\ nsock = (IF simulate THEN 0 ELSE 1)
    /\ openSockets = (IF simulate THEN {} ELSE {1})
    /\ connected = {}
    /\ serialConnected = FALSE
    /\ serial = 0
    /\ activeTimers = {}
    /\ inflight = <<>>
    /\ out = <<>>
    /\ logged = <<>>
    /\ thrown = FALSE
    /\ jogSent = FALSE
    /\ zProbeRecord = ZProbeRecord
    /\ wasSuccess = FALSE
    /\ last = Step("constructor", 0, <<>>, FALSE)

(* ------------------------- effects shared by the handlers -------------- *)
\* what the controller queues of the messages emitted on this.socket
Queued(msgs) ==
    IF socket \in connected
    THEN inflight \o [i \in 1..Len(msgs) |-> IsJogMsg(msgs[i])]
    ELSE inflight

\* GcodeSender.sendMessage applied to each message of msgs in turn
sendMessage(msgs) ==
    IF socketReady(simulate, serialConnected)
    THEN /\ out' = msgs
         /\ logged' = <<>>
         /\ inflight' = Queued(msgs)
         /\ Len(inflight') <= MaxInFlight
    ELSE /\ out' = <<>>
         /\ logged' = msgs
         /\ inflight' = inflight

NewTimer == CHOOSE t \in 1..(MaxTimers + 1) : t \notin activeTimers

\* openSerial that starts a retry timer the first time only
openSerialOnce ==
    IF simulate \/ serial # 0
    THEN UNCHANGED <<serial, activeTimers>>
    ELSE /\ Cardinality(activeTimers) < MaxTimers
         /\ serial' = NewTimer
         /\ activeTimers' = activeTimers \cup {NewTimer}

\* Connector.openSerial
openSerial ==
    IF simulate
    THEN UNCHANGED <<serial, activeTimers>>
    ELSE /\ Cardinality(activeTimers) < MaxTimers
         /\ serial' = NewTimer
         /\ activeTimers' = activeTimers \cup {NewTimer}

\* the handlers of connectServer and of Actions live on the socket that
\* connectServer created, the first one
HandlerSocket == 1

(* ------------------------- actions.ts ---------------------------------- *)
\* Actions.onUse, restartSmoothJog included
onUse(keyCode) ==
    /\ last' = Step("onUse", keyCode, <<>>, FALSE)
    /\ running /\ hidPresent /\ attached
    /\ sendMessage(keyMessages(keyCode, controllerType))
    /\ moveDistance' = keyMoveDistance(keyCode, moveDistance)
    /\ previousKeyCode' = keyPrevious(keyCode, previousKeyCode)
    /\ axisInstructions' = keyCoords(keyCode)
    /\ smoothJogging' = TRUE
    /\ smoothJoggingTimer' = restartSmoothJog(axisInstructions')
    /\ jogTimers' = clearTimeout(jogTimers) + 1
    /\ thrown' = FALSE
    /\ UNCHANGED <<joggingAck, jogSent, running, attached>>
    /\ UNCHANGED probeVars /\ UNCHANGED optVars /\ UNCHANGED connVars

\* Actions.jogFunction: the jog timeout fires
jogFunction ==
    /\ last' = Step("jogFunction", 0, <<>>, FALSE)
    /\ running
    /\ smoothJoggingTimer # 0
    /\ smoothJoggingTimer' = jogDelay(joggingAck)
    /\ jogTimers' = (jogTimers - 1) + 1
    /\ IF jogSends(axisInstructions, joggingAck)
       THEN /\ sendMessage(jogGantry(controllerType,
                                     axisInstructions.move_x_axis,
                                     axisInstructions.move_y_axis,
                                     axisInstructions.move_z_axis))
            /\ joggingAck' = FALSE
            /\ jogSent' = (jogSent \/ out' # <<>>)
       ELSE /\ out' = <<>> /\ logged' = <<>>
            /\ UNCHANGED <<inflight, joggingAck, jogSent>>
    /\ thrown' = FALSE
    /\ UNCHANGED <<moveDistance, previousKeyCode, axisInstructions,
                   smoothJogging, running, attached>>
    /\ UNCHANGED probeVars /\ UNCHANGED optVars /\ UNCHANGED connVars

\* Actions.stopSmoothJog
stopSmoothJog ==
    /\ last' = Step("stopSmoothJog", 0, <<>>, FALSE)
    /\ running
    /\ smoothJogging' = FALSE
    /\ smoothJoggingTimer' = 0
    /\ jogTimers' = clearTimeout(jogTimers)
    /\ IF socket = 0
       THEN out' = <<>> /\ thrown' = TRUE
       ELSE out' = <<JogCancel>> /\ thrown' = FALSE
    /\ logged' = <<>>
    /\ UNCHANGED <<moveDistance, previousKeyCode, axisInstructions,
                   joggingAck, jogSent, inflight, running, attached>>
    /\ UNCHANGED probeVars /\ UNCHANGED optVars /\ UNCHANGED connVars

\* a handler in which an acknowledgement nobody waits for takes the flag
\* back
onSerialReadCounts(data) ==
    joggingAck' = (IF isAck(data) THEN ~joggingAck ELSE joggingAck)

\* the serialport:read handler registered by the Actions constructor
onSerialRead(data) ==
    joggingAck' = (IF ~joggingAck /\ isAck(data) THEN TRUE ELSE joggingAck)

\* the lines the controller answers a command with
Replies(isJog) == IF isJog THEN {LineOk, LineErr15} ELSE {LineOk, LineErr9}

\* the controller answers its oldest command; cncjs forwards the line
ControllerReply(data) ==
    /\ running
    /\ inflight # <<>>
    /\ data \in Replies(Head(inflight))
    /\ inflight' = Tail(inflight)
    /\ IF HandlerSocket \in connected
       THEN /\ onSerialRead(data)
            /\ last' = Step("serialport:read", 0, data, joggingAck' # joggingAck)
       ELSE /\ UNCHANGED joggingAck
            /\ last' = Step("lost", 0, <<>>, FALSE)
    /\ out' = <<>> /\ logged' = <<>> /\ thrown' = FALSE
    /\ UNCHANGED <<moveDistance, previousKeyCode, axisInstructions,
                   smoothJogging, smoothJoggingTimer, jogTimers, jogSent,
                   running,
                   attached>>
    /\ UNCHANGED probeVars /\ UNCHANGED optVars /\ UNCHANGED connVars

\* the controller reports its status unasked
ControllerStatus ==
    /\ running
    /\ HandlerSocket \in connected
    /\ onSerialRead(LineStatus)
    /\ last' = Step("serialport:read", 0, LineStatus, joggingAck' # joggingAck)
    /\ out' = <<>> /\ logged' = <<>> /\ thrown' = FALSE
    /\ UNCHANGED <<moveDistance, previousKeyCode, axisInstructions,
                   smoothJogging, smoothJoggingTimer, jogTimers, jogSent,
                   running,
                   attached, inflight>>
    /\ UNCHANGED probeVars /\ UNCHANGED optVars /\ UNCHANGED connVars

\* the controller reports the outcome of a probe cycle, or sends a line that
\* resembles such a report; both serialport:read observers run, the one of
\* Actions and, with a Grbl sender, the one of GcodeGrbl
ProbeReport(data) ==
    /\ running
    /\ HandlerSocket \in connected
    /\ onSerialRead(data)
    /\ last' = Step("serialport:read", 0, data, joggingAck' # joggingAck)
    /\ wasSuccess' = zProbeRecord.success
    /\ IF controllerType = "grbl"
       THEN /\ zProbeRecord' = grblProbeRecord(zProbeRecord, data)
            /\ sendMessage(grblProbeMessages(zProbeRecord, data))
       ELSE /\ UNCHANGED <<zProbeRecord, inflight>>
            /\ out' = <<>> /\ logged' = <<>>
    /\ thrown' = FALSE
    /\ UNCHANGED <<moveDistance, previousKeyCode, axisInstructions,
                   smoothJogging, smoothJoggingTimer, jogTimers, jogSent,
                   running,
                   attached>>
    /\ UNCHANGED optVars /\ UNCHANGED connVars

(* ------------------------- connector.ts -------------------------------- *)
quiet(op) ==
    /\ out' = <<>> /\ logged' = <<>> /\ thrown' = FALSE
    /\ last' = Step(op, 0, <<>>, FALSE)

\* socket.close() on this.socket
closeSocket ==
    /\ openSockets' = openSockets \ {socket}
    /\ connected' = connected \ {socket}

\* process.exit(1) in the keyboard's error handler of NumpadController: the
\* sockets and the timers end with the process
processExit ==
    /\ running' = FALSE
    /\ openSockets' = {} /\ connected' = {}
    /\ activeTimers' = {} /\ smoothJoggingTimer' = 0 /\ jogTimers' = 0

\* the keyboard's error handler in NumpadController (emit 'remove', then
\* exit unless simulating) and the 'remove' handler of the Connector
\* constructor
onRemove ==
    /\ running /\ hidPresent /\ attached
    /\ attached' = FALSE
    /\ serialConnected' = (IF socket # 0 THEN FALSE ELSE serialConnected)
    /\ IF simulate
       THEN /\ IF socket # 0
               THEN /\ closeSocket
                    /\ activeTimers' = activeTimers \ {serial}
               ELSE UNCHANGED <<openSockets, connected, activeTimers>>
            /\ UNCHANGED <<running, smoothJoggingTimer, jogTimers>>
       ELSE processExit
    /\ quiet("remove")
    /\ UNCHANGED <<socket, nsock, serial, inflight, jogSent>>
    /\ UNCHANGED probeVars /\ UNCHANGED optVars
    /\ UNCHANGED <<moveDistance, previousKeyCode, axisInstructions,
                   smoothJogging, joggingAck>>

\* the transport of socket s connects; on the first socket the 'connect'
\* handler runs openSerial
onConnect(s) ==
    /\ running
    /\ s \in openSockets \ connected
    /\ connected' = connected \cup {s}
    /\ IF s = HandlerSocket
       THEN openSerial
       ELSE UNCHANGED <<serial, activeTimers>>
    /\ quiet("connect")
    /\ UNCHANGED <<socket, nsock, openSockets, serialConnected, inflight,
                   jogSent, running, attached>>
    /\ UNCHANGED probeVars /\ UNCHANGED optVars /\ UNCHANGED actionsVars

\* the transport of socket s drops (socket.io 'disconnect', not subscribed)
onDisconnect(s) ==
    /\ running
    /\ s \in connected
    /\ connected' = connected \ {s}
    /\ quiet("disconnect")
    /\ UNCHANGED <<socket, nsock, openSockets, serialConnected, serial,
                   activeTimers, inflight, jogSent, running, attached>>
    /\ UNCHANGED probeVars /\ UNCHANGED optVars /\ UNCHANGED actionsVars

\* the 'error' handler: close this.socket, io.connect a new one
onError ==
    /\ running
    /\ HandlerSocket \in openSockets
    /\ nsock < MaxSockets
    /\ nsock' = nsock + 1
    /\ socket' = nsock + 1
    /\ openSockets' = (openSockets \ {socket}) \cup {nsock + 1}
    /\ connected' = connected \ {socket}
    /\ quiet("error")
    /\ UNCHANGED <<serialConnected, serial, activeTimers, inflight, jogSent,
                   running, attached>>
    /\ UNCHANGED probeVars /\ UNCHANGED optVars /\ UNCHANGED actionsVars

\* the 'close' handler: io.connect a new socket
onClose ==
    /\ running
    /\ HandlerSocket \in connected
    /\ nsock < MaxSockets
    /\ nsock' = nsock + 1
    /\ socket' = nsock + 1
    /\ openSockets' = openSockets \cup {nsock + 1}
    /\ connected' = connected \ {HandlerSocket}
    /\ quiet("close")
    /\ UNCHANGED <<serialConnected, serial, activeTimers, inflight, jogSent,
                   running, attached>>
    /\ UNCHANGED probeVars /\ UNCHANGED optVars /\ UNCHANGED actionsVars

\* the 'serialport:open' handler
onSerialportOpen ==
    /\ running
    /\ HandlerSocket \in connected
    /\ activeTimers' = activeTimers \ {serial}
    /\ serialConnected' = TRUE
    /\ quiet("serialport:open")
    /\ UNCHANGED <<socket, nsock, openSockets, connected, serial, inflight,
                   jogSent, running, attached>>
    /\ UNCHANGED probeVars /\ UNCHANGED optVars /\ UNCHANGED actionsVars

\* the 'serialport:close' handler; the port's unanswered commands are lost
onSerialportClose ==
    /\ running
    /\ HandlerSocket \in connected
    /\ serialConnected' = FALSE
    /\ openSerial
    /\ inflight' = <<>>
    /\ quiet("serialport:close")
    /\ UNCHANGED <<socket, nsock, openSockets, connected, jogSent, running,
                   attached>>
    /\ UNCHANGED probeVars /\ UNCHANGED optVars /\ UNCHANGED actionsVars

\* the 'serialport:error' handler
onSerialportError ==
    /\ running
    /\ HandlerSocket \in connected
    /\ serialConnected' = FALSE
    /\ openSerial
    /\ quiet("serialport:error")
    /\ UNCHANGED <<socket, nsock, openSockets, connected, inflight, jogSent,
                   running, attached>>
    /\ UNCHANGED probeVars /\ UNCHANGED optVars /\ UNCHANGED actionsVars

\* the setInterval callback of openSerial: timer t fires
openTick(t) ==
    /\ last' = Step("openTick", 0, <<>>, FALSE)
    /\ running
    /\ t \in activeTimers
    /\ out' = <<OpenRequest>>
    /\ logged' = <<>> /\ thrown' = FALSE
    /\ UNCHANGED <<inflight, jogSent, running, attached>>
    /\ UNCHANGED probeVars /\ UNCHANGED optVars /\ UNCHANGED actionsVars /\ UNCHANGED connVars

(* ------------------------- the system ---------------------------------- *)
Next ==
    \/ \E keyCode \in Keys : onUse(keyCode)
    \/ jogFunction
    \/ stopSmoothJog
    \/ \E data \in {LineOk, LineErr15, LineErr9} : ControllerReply(data)
    \/ ControllerStatus
    \/ onRemove
    \/ \E s \in 1..MaxSockets : onConnect(s)
    \/ \E s \in 1..MaxSockets : onDisconnect(s)
    \/ onError
    \/ onClose
    \/ onSerialportOpen
    \/ onSerialportClose
    \/ onSerialportError
    \/ \E t \in 1..MaxTimers : openTick(t)

Spec == Init /\ [][Next]_vars

\* the program while the controller sends probe reports: the connection is
\* established and lost, the port opened and closed, lines arrive and the
\* commands of the probe observer are answered
NextProbe ==
    \/ \E data \in ProbeLines : ProbeReport(data)
    \/ ControllerReply(LineOk)
    \/ onConnect(HandlerSocket)
    \/ onDisconnect(HandlerSocket)
    \/ onSerialportOpen
    \/ onSerialportClose

SpecProbe == Init /\ [][NextProbe]_vars

\* the program under every key of the pad: key events, jog ticks, the
\* controller's answers, and the connection coming up
NextKeys ==
    \/ \E keyCode \in AllKeys : onUse(keyCode)
    \/ jogFunction
    \/ \E data \in {LineOk, LineErr15, LineErr9} : ControllerReply(data)
    \/ onConnect(HandlerSocket)
    \/ onSerialportOpen

SpecKeys == Init /\ [][NextKeys]_vars

\* ZProbeRecord.updateFromString called on its own with the line data
updateFromStringCall(data) ==
    /\ running
    /\ wasSuccess' = zProbeRecord.success
    /\ zProbeRecord' = updateFromString(zProbeRecord, data)
    /\ last' = Step("updateFromString", 0, data, FALSE)
    /\ out' = <<>> /\ logged' = <<>> /\ thrown' = FALSE
    /\ UNCHANGED <<inflight, jogSent, running, attached>>
    /\ UNCHANGED optVars /\ UNCHANGED actionsVars /\ UNCHANGED connVars

\* the probe record driven line by line
NextRecord == \E data \in ProbeLines : updateFromStringCall(data)

SpecRecord == Init /\ [][NextRecord]_vars

(* ------------------------- properties ---------------------------------- *)
JogsInFlight == {i \in DOMAIN inflight : inflight[i]}

\* C1: at any instant at most one jog command that reached the controller
\* is unanswered.
C1_AtMostOneJogUnacknowledged == Cardinality(JogsInFlight) <= 1

\* C2: while a transmitted jog command is unanswered by the controller,
\* ackPending stays true (joggingAck false); replies to other commands do
\* not clear it.
C2_AckPendingUntilJogAnswered == (JogsInFlight # {}) => ~joggingAck

\* C3: a tick that fires while ackPending is true transmits nothing and
\* schedules the next tick 75 ms later.
C3_TickWhilePendingPollsAtHalf ==
    [][(jogFunction /\ ~joggingAck) =>
           /\ out' = <<>> /\ logged' = <<>>
           /\ inflight' = inflight
           /\ ~joggingAck'
           /\ smoothJoggingTimer' = 75]_vars

C3_Witness ==
    /\ last.op = "jogFunction"
    /\ jogSent /\ ~joggingAck /\ ~isZero(axisInstructions)
    /\ out = <<>> /\ smoothJoggingTimer = 75

\* C4: an error:15 line received while ackPending is true clears ackPending
\* and changes nothing else, exactly as an ok line does.
C4_TravelLimitClearsLikeOk ==
    [][\A data \in {LineOk, LineErr15} :
          (ControllerReply(data) /\ ~joggingAck /\ HandlerSocket \in connected)
          => /\ joggingAck'
             /\ out' = <<>> /\ logged' = <<>>
             /\ UNCHANGED <<moveDistance, previousKeyCode, axisInstructions,
                            smoothJogging, smoothJoggingTimer>>
             /\ UNCHANGED connVars]_vars

C4_Witness ==
    /\ last.op = "serialport:read" /\ last.data = LineErr15 /\ last.acked
    /\ joggingAck /\ jogSent

\* C5: a key event with key 0 after a jog command was transmitted emits the
\* jog-cancel byte first thing.
C5_ReleaseSendsCancel ==
    (last.op = "onUse" /\ last.key = KEYCODE_UNKNOWN /\ jogSent)
    => (out # <<>> /\ out[1] = JogCancel)

\* C6: after a stop no jog tick is scheduled and ackPending is false.
C6_StopClearsState ==
    (last.op = "stopSmoothJog")
    => (~smoothJogging /\ smoothJoggingTimer = 0 /\ joggingAck)

\* C7: a tick with zero intent transmits nothing and is rescheduled; no step
\* taken with zero intent transmits a jog, and only a directional key event
\* makes the intent non-zero.
C7_ZeroIntentKeepsTimerSendsNothing ==
    [][/\ (jogFunction /\ isZero(axisInstructions))
          => (out' = <<>> /\ logged' = <<>> /\ smoothJoggingTimer' # 0)
       /\ isZero(axisInstructions)
          => \A i \in DOMAIN out' : ~IsJogMsg(out'[i])
       /\ (isZero(axisInstructions) /\ ~isZero(axisInstructions'))
          => \E k \in DirectionKeys : onUse(k)]_vars

C7_Witness ==
    /\ last.op = "jogFunction"
    /\ isZero(axisInstructions) /\ previousKeyCode = KP_6 /\ jogSent
    /\ out = <<>> /\ smoothJoggingTimer # 0

C9_CommandsOnlyWhenReady ==
    \A i \in DOMAIN out :
        out[i].ev = "command" => (~simulate /\ serialConnected)

\* C10: at most one serial-open retry timer is running at any time.
C10_OneOpenRetryTimer == Cardinality(activeTimers) <= 1

C12_NoOpenRequestOnceReady ==
    ~(/\ last.op = "openTick" /\ out = <<OpenRequest>>
      /\ serialConnected /\ serial \notin activeTimers
      /\ socket = HandlerSocket)

\* C13: right after the 'error' or the 'close' handler ran, the socket it
\* replaced is closed, serialConnected is false and no serial-open retry
\* timer is running.
C13_TransportLossCleansUp ==
    (last.op \in {"error", "close"})
    => /\ (socket - 1) \notin openSockets
       /\ ~serialConnected
       /\ activeTimers = {}

\* C14: after a transport error or close, once the server has accepted the
\* re-attempted connection (this.socket is connected), the socket on which
\* the connector's handlers and the ack and probe observers are subscribed
\* is open, so that the open confirmation and serial lines can be received.
C14_ObserversSurviveReconnect ==
    (running /\ socket # HandlerSocket /\ socket \in connected)
    => HandlerSocket \in openSockets

\* C15: right after a device detach the socket is closed, serialConnected is
\* false and no timer remains scheduled, neither a serial-open retry timer
\* nor the jog tick timer.
C15_DetachStopsEverything ==
    (last.op = "remove")
    => /\ socket \notin openSockets
       /\ ~serialConnected
       /\ activeTimers = {}
       /\ smoothJoggingTimer = 0

\* what the reports among ProbeLines say, read off their text: the probe Z
\* in thousandths and the success flag
ProbeReports ==
    {[line |-> PrbHit, z |-> 0 - 12340, hit |-> TRUE],
     [line |-> PrbHit2, z |-> 0 - 10000, hit |-> TRUE],
     [line |-> PrbMiss, z |-> 0 - 10000, hit |-> FALSE]}

\* the commands the last step handed to sendMessage, emitted or logged
Handed == out \o logged

\* C16: on a probe report with success flag 1 the Grbl sender hands to
\* sendMessage exactly one offset command, whose Z is the reported probe Z
\* minus the plate thickness, directly followed by the retract move; on a
\* report with success flag 0 it hands over nothing.
C16_ProbeHitSetsOffsetThenRetracts ==
    [][\A r \in ProbeReports :
          (ProbeReport(r.line) /\ controllerType = "grbl")
          => IF r.hit
             THEN LET sent == out' \o logged'
                      offsets == {i \in DOMAIN sent :
                                     sent[i].code = "G10 L20 P1 Z"}
                  IN  /\ Cardinality(offsets) = 1
                      /\ \A i \in offsets :
                            /\ sent[i].z = r.z - zProbeThickness.v
                            /\ i < Len(sent)
                            /\ sent[i + 1] = Retract
                      /\ Cardinality({i \in DOMAIN sent :
                                         sent[i] = Retract}) = 1
             ELSE out' = <<>> /\ logged' = <<>>]_vars

C16_Witness ==
    /\ last.op = "serialport:read" /\ last.data = PrbHit
    /\ controllerType = "grbl"
    /\ out = <<Gcode("G91"),
               Msg("command", "gcode", "G10 L20 P1 Z", 0, 0, 0 - 31840, 0),
               Msg("command", "gcode", "G0 Z", 0, 0, 4000, 0),
               Gcode("G90")>>

\* C17: the probe sequence is handed to sendMessage only by a report that
\* changes success from false to true, never by a report that arrives while
\* success is already true.
C17_ProbeSequenceOnRisingEdgeOnly ==
    (/\ last.op = "serialport:read"
     /\ last.data \in {r.line : r \in ProbeReports}
     /\ Handed # <<>>)
    => (~wasSuccess /\ zProbeRecord.success)

\* C17 as the code has it: the probe sequence is handed to sendMessage for
\* every report whose success flag is 1, whether success was true before or
\* not, and for no report whose flag is 0.
C17_ProbeSequenceOnEveryHit ==
    \A r \in ProbeReports :
        (last.op = "serialport:read" /\ last.data = r.line
         /\ controllerType = "grbl")
        => ((Handed # <<>>) <=> r.hit)

C17_Witness ==
    /\ last.op = "serialport:read" /\ last.data = PrbHit2
    /\ wasSuccess /\ zProbeRecord.success
    /\ out # <<>> /\ out[2] = SetOffsetZ(Num(0 - 29500))

\* the lines among ProbeLines that pass isValidString although the text
\* between the colons is not three numbers
MalformedReports == {PrbWords, PrbTwoFields}

\* C18: a line that passes isValidString but whose inner fields do not parse
\* as three numbers leaves x, y, z and success as they were, and
\* updateFromString does not throw.
C18_MalformedFieldsLeaveRecord ==
    [][\A data \in MalformedReports :
          (ProbeReport(data) /\ controllerType = "grbl")
          => (zProbeRecord' = zProbeRecord /\ ~thrown')]_vars

\* C19: isValidString is true exactly of the lines of the form
\* [PRB:<x>,<y>,<z>:<d>] with three coordinate fields and one digit; a
\* bracketed PRB line with malformed inner fields is rejected.
C19_ValidIffExactForm ==
    (last.op = "serialport:read" /\ last.data \in ProbeLines)
    => (isValidString(last.data)
        <=> last.data \in {r.line : r \in ProbeReports})

\* C20: updateFromString applied to a line for which isValidString is false
\* changes none of x, y, z and success, at every application.
C20_InvalidLineLeavesRecord ==
    [][\A data \in ProbeLines :
          (updateFromStringCall(data) /\ ~isValidString(data))
          => zProbeRecord' = zProbeRecord]_vars

C20_Witness ==
    /\ last.op = "updateFromString" /\ last.data = PrbNoClose
    /\ zProbeRecord = [x |-> Num(0), y |-> Num(0), z |-> Num(0 - 12340),
                       success |-> TRUE]
    /\ wasSuccess

\* the magnitude of a MotionIntent, in whole mm
Magnitude(ai) ==
    Sqrt(ai.move_x_axis * ai.move_x_axis + ai.move_y_axis * ai.move_y_axis
         + ai.move_z_axis * ai.move_z_axis)

\* d * 60000 / T for the standing intent
TickFeedrate ==
    (Magnitude(axisInstructions) * 60000) \div SMOOTHJOG_COMMANDS_INTERVAL

\* C21: every transmitted jog command carries the feedrate d * 60000 / T,
\* d the magnitude of the standing intent and T the tick interval, in both
\* dialects.
C21_FeedrateCoversIntentPerTick ==
    \A i \in DOMAIN out :
        IsJogMsg(out[i]) => out[i].f = TickFeedrate

\* C21 as the code has it: the plain dialect carries d * 60000 / T, the
\* Grbl dialect 98 hundredths of it.
C21_FeedrateByDialect ==
    \A i \in DOMAIN out :
        IsJogMsg(out[i])
        => out[i].f = (IF controllerType = "grbl"
                       THEN (TickFeedrate * 98) \div 100
                       ELSE TickFeedrate)

C21_Witness ==
    /\ last.op = "jogFunction" /\ controllerType = "grbl"
    /\ previousKeyCode = KP_9
    /\ \E i \in DOMAIN out : out[i].code = "$J=" /\ out[i].f = 5543664

\* C22: with the key jog +X pressed, the jog command transmitted on the
\* first tick carries the feedrate S = SMOOTHJOG_JOGSPEED.
C22_FirstTickJogsAtJogSpeed ==
    (last.op = "jogFunction" /\ previousKeyCode = KP_6)
    => \A i \in DOMAIN out :
          IsJogMsg(out[i]) => out[i].f = SMOOTHJOG_JOGSPEED

\* C23: the scheduler starts with no jog timer running, and no timer runs
\* as long as no key event has set a non-zero intent (no key but the no-key
\* report has been seen).
C23_IdleUntilFirstIntent ==
    (previousKeyCode = 0) => smoothJoggingTimer = 0

\* C23 as the code has it: the jog timer is scheduled at construction, and
\* every key event, of zero intent or not, restarts it at the full interval.
C23_TimerRunsFromConstruction ==
    (last.op \in {"constructor", "onUse"})
    => (smoothJogging /\ smoothJoggingTimer = SMOOTHJOG_COMMANDS_INTERVAL)

C23_Witness ==
    /\ last.op = "onUse" /\ last.key = KEYCODE_UNKNOWN
    /\ previousKeyCode = 0 /\ isZero(axisInstructions)
    /\ smoothJoggingTimer = SMOOTHJOG_COMMANDS_INTERVAL

\* C24: while a jog is unacknowledged and the controller sends no
\* acknowledging line, no step fails or stops the scheduler: ackPending
\* stays true, a tick stays scheduled, every tick reschedules itself at half
\* the interval, and no jog command is handed over.
C24_UnackedJogPollsForever ==
    [][(/\ ~joggingAck
        /\ ~(\E data \in {LineOk, LineErr15} : ControllerReply(data)))
       => /\ ~joggingAck'
          /\ ~thrown'
          /\ smoothJoggingTimer' # 0
          /\ jogFunction
             => smoothJoggingTimer' = SMOOTHJOG_COMMANDS_INTERVAL \div 2
          /\ \A i \in DOMAIN (out' \o logged') :
                ~IsJogMsg((out' \o logged')[i])]_vars

C24_Witness ==
    /\ last.op = "jogFunction" /\ ~joggingAck
    /\ JogsInFlight # {} /\ ~isZero(axisInstructions)
    /\ out = <<>> /\ logged = <<>>
    /\ smoothJoggingTimer = SMOOTHJOG_COMMANDS_INTERVAL \div 2

\* C25: a key event with an unknown key code or with the no-key report
\* hands no command to sendMessage, leaves the step size, and sets the
\* standing intent to {0, 0, 0}.
C25_UnknownKeyClearsIntentOnly ==
    [][\A k \in {KEYCODE_UNKNOWN, 255} :
          onUse(k) => /\ out' = <<>> /\ logged' = <<>>
                      /\ moveDistance' = moveDistance
                      /\ axisInstructions' = XYZCoords]_vars

C25_Witness ==
    /\ last.op = "onUse" /\ last.key = 255
    /\ ~joggingAck /\ JogsInFlight # {}
    /\ moveDistance = SINGLESTEP_LARGE_JOGDISTANCE
    /\ isZero(axisInstructions) /\ out = <<>> /\ logged = <<>>

\* C26: a key event with the unknown key code 0xFF leaves previousKeyCode
\* unchanged.
C26_UnknownKeyKeepsPreviousKey ==
    [][onUse(255) => previousKeyCode' = previousKeyCode]_vars

\* C26 as the code has it: a key event stores its key code in
\* previousKeyCode whenever the code is not 0, the unknown code 0xFF
\* included; only the no-key report leaves previousKeyCode unchanged.
C26_EveryNonZeroKeyIsStored ==
    [][\A k \in AllKeys :
          onUse(k) => previousKeyCode' =
                         (IF k = KEYCODE_UNKNOWN THEN previousKeyCode ELSE k)]_vars

C26_Witness ==
    /\ last.op = "onUse" /\ last.key = 255
    /\ previousKeyCode = 255
    /\ out = <<>> /\ logged = <<>>

\* the step size, in tenths of a mm, that each step-size key stands for
StepSizeOf ==
    [k \in {KP_DIVIDE, KP_MULTIPLY, BACKSPACE} |->
        IF k = KP_DIVIDE THEN 1 ELSE IF k = KP_MULTIPLY THEN 10 ELSE 100]

\* C27: the step size is 1 mm at first and always one of 0.1, 1 and 10 mm;
\* each step-size key sets its own value, and a step that changes the step
\* size is a key event of a step-size key.
C27_StepSizeSticky ==
    /\ moveDistance = 10
    /\ [](moveDistance \in {1, 10, 100})
    /\ [][/\ \A k \in DOMAIN StepSizeOf :
                onUse(k) => moveDistance' = StepSizeOf[k]
          /\ (moveDistance' # moveDistance)
                => \E k \in DOMAIN StepSizeOf : onUse(k)]_vars

C27_Witness ==
    /\ last.op = "serialport:read" /\ last.acked
    /\ previousKeyCode \in DirectionKeys
    /\ moveDistance = SINGLESTEP_SMALL_JOGDISTANCE

\* C28: a key event that repeats the key of the key event just before it
\* leaves the intent, the step size, previousKeyCode, joggingAck and the
\* jogging flag as the first one left them.
C28_RepeatedKeyIdempotent ==
    [][\A k \in AllKeys :
          (last.op = "onUse" /\ last.key = k /\ onUse(k))
          => UNCHANGED <<axisInstructions, moveDistance, previousKeyCode,
                         joggingAck, smoothJogging>>]_vars

C28_Witness ==
    /\ last.op = "onUse" /\ last.key = KP_0 /\ previousKeyCode = KP_0
    /\ inflight = <<FALSE, FALSE>>
    /\ out = controllerUnlock

Sign(n) == IF n > 0 THEN 1 ELSE IF n < 0 THEN 0 - 1 ELSE 0

\* the hotkey table of the README: the signs of X, Y and Z per key
HotkeySigns ==
    [k \in DirectionKeys |->
        CASE k = KP_7 -> <<0 - 1, 1, 0>>
          [] k = KP_8 -> <<0, 1, 0>>
          [] k = KP_9 -> <<1, 1, 0>>
          [] k = KP_4 -> <<0 - 1, 0, 0>>
          [] k = KP_6 -> <<1, 0, 0>>
          [] k = KP_1 -> <<0 - 1, 0 - 1, 0>>
          [] k = KP_2 -> <<0, 0 - 1, 0>>
          [] k = KP_3 -> <<1, 0 - 1, 0>>
          [] k = KP_MINUS -> <<0, 0, 1>>
          [] k = KP_PLUS -> <<0, 0, 0 - 1>>]

\* C29: after the key event of a directional key the standing intent has
\* the signs the hotkey table documents for the key, and all other axes 0.
C29_DirectionKeySigns ==
    (last.op = "onUse" /\ last.key \in DirectionKeys)
    => <<Sign(axisInstructions.move_x_axis),
         Sign(axisInstructions.move_y_axis),
         Sign(axisInstructions.move_z_axis)>> = HotkeySigns[last.key]

C29_Witness ==
    /\ last.op = "onUse" /\ last.key = KP_PLUS
    /\ axisInstructions.move_x_axis = 0 /\ axisInstructions.move_y_axis = 0
    /\ axisInstructions.move_z_axis < 0

\* C30: key 5 repeats the last action: its key event has the effect that a
\* key event of the key pressed last before it (previousKeyCode) has.
C30_KeyFiveRepeatsLastKey ==
    [][(onUse(KP_5) /\ previousKeyCode \notin {KEYCODE_UNKNOWN, KP_5})
       => /\ axisInstructions' = keyCoords(previousKeyCode)
          /\ moveDistance' = keyMoveDistance(previousKeyCode, moveDistance)
          /\ out' \o logged' = keyMessages(previousKeyCode, controllerType)]_vars

\* C31: once a step-size key has selected a step other than the default,
\* the displacement a directional key commands differs from the displacement
\* the same key commands at the default step.
C31_StepSizeScalesJog ==
    (last.op = "jogFunction" /\ moveDistance # DEFAULT_MOVE_DISTANCE)
    => \A i \in DOMAIN Handed :
          IsJogMsg(Handed[i])
          => Coords(Handed[i].x, Handed[i].y, Handed[i].z)
                # keyCoords(previousKeyCode)

\* the keys whose operation GcodeMarlin overrides
MarlinOverrides == {KP_PERIOD, KP_ENTER}

\* C32: under the Marlin sender a jog tick hands over exactly the relative
\* move of the base sender (G21, G91 G0 X.. Y.. Z.. F.., G90), and every key
\* other than the homing and the probing key hands over what the base sender
\* hands over for it.
C32_MarlinJogIsBaseRelativeMove ==
    controllerType = "marlin"
    => /\ (last.op = "jogFunction" /\ Handed # <<>>)
          => Handed = <<Gcode("G21"),
                        Msg("command", "gcode", "G91 G0",
                            axisInstructions.move_x_axis,
                            axisInstructions.move_y_axis,
                            axisInstructions.move_z_axis, TickFeedrate),
                        Gcode("G90")>>
       /\ (last.op = "onUse" /\ last.key \notin MarlinOverrides)
          => Handed = keyMessages(last.key, "base")

C32_Witness ==
    /\ controllerType = "marlin"
    /\ last.op = "jogFunction"
    /\ Len(out) = 3
    /\ out[2].code = "G91 G0"
    /\ out[2].x = jogStepXY

\* C36: at most one jog timeout is pending at any time: the constructor, a
\* key event and a tick each leave exactly the timeout they scheduled.
C36_OneJogTimerPending == jogTimers <= 1

C36_Witness ==
    /\ last.op = "onUse"
    /\ jogSent /\ ~joggingAck
    /\ jogTimers = 1
    /\ smoothJoggingTimer = SMOOTHJOG_COMMANDS_INTERVAL

(* ------------------------- console.ts: construction -------------------- *)
\* a NumpadController.on that only subscribes
attachOnSubscribeNever(isConnected) == FALSE

\* NumpadController.on: a handler subscribed to 'attach' while the device is
\* connected makes 'attach' fire again at once
attachOnSubscribe(isConnected) == isConnected

\* the steps of startCLI that precede the running program
BootSteps == {"start", "new NumpadController", "new Connector"}

\* the state before startCLI constructs anything
InitBoot ==
    /\ simulate \in BOOLEAN
    /\ controllerType \in {"grbl", "marlin"}
    /\ hidPresent \in BOOLEAN
    /\ running = TRUE
    /\ attached = FALSE
    /\ moveDistance = 0
    /\ previousKeyCode = 0
    /\ axisInstructions = XYZCoords
    /\ smoothJogging = FALSE
    /\ smoothJoggingTimer = 0
    /\ jogTimers = 0
    /\ joggingAck = FALSE
    /\ socket = 0
    /\ nsock = 0
    /\ openSockets = {}
    /\ connected = {}
    /\ serialConnected = FALSE
    /\ serial = 0
    /\ activeTimers = {}
    /\ inflight = <<>>
    /\ out = <<>>
    /\ logged = <<>>
    /\ thrown = FALSE
    /\ jogSent = FALSE
    /\ zProbeRecord = ZProbeRecord
    /\ wasSuccess = FALSE
    /\ last = Step("start", 0, <<>>, FALSE)

\* new NumpadController: with a keyboard found it sets connected and emits
\* 'attach' to no subscriber yet; without one it exits unless simulating
newNumpadController ==
    /\ last.op = "start"
    /\ attached' = hidPresent
    /\ running' = (hidPresent \/ simulate)
    /\ quiet("new NumpadController")
    /\ UNCHANGED <<inflight, jogSent>>
    /\ UNCHANGED probeVars /\ UNCHANGED optVars /\ UNCHANGED actionsVars
    /\ UNCHANGED connVars

\* Connector.connectServer up to the socket it creates
connectServer ==
    IF simulate
    THEN /\ openSerial
         /\ UNCHANGED <<socket, nsock, openSockets>>
    ELSE /\ socket' = nsock + 1
         /\ nsock' = nsock + 1
         /\ openSockets' = openSockets \cup {nsock + 1}
         /\ UNCHANGED <<serial, activeTimers>>

\* new Connector: subscribes its 'attach' and 'remove' handlers
newConnector ==
    /\ last.op = "new NumpadController"
    /\ running
    /\ IF attachOnSubscribe(attached)
       THEN connectServer
       ELSE UNCHANGED <<socket, nsock, openSockets, serial, activeTimers>>
    /\ quiet("new Connector")
    /\ UNCHANGED <<connected, serialConnected, inflight, jogSent, running,
                   attached>>
    /\ UNCHANGED probeVars /\ UNCHANGED optVars /\ UNCHANGED actionsVars

\* new Actions: the numpad state, the subscriptions, the first jog timeout
newActions ==
    /\ last.op = "new Connector"
    /\ moveDistance' = DEFAULT_MOVE_DISTANCE
    /\ joggingAck' = TRUE
    /\ smoothJogging' = TRUE
    /\ smoothJoggingTimer' = restartSmoothJog(axisInstructions)
    /\ jogTimers' = clearTimeout(jogTimers) + 1
    /\ quiet("constructor")
    /\ UNCHANGED <<previousKeyCode, axisInstructions, inflight, jogSent,
                   running, attached>>
    /\ UNCHANGED probeVars /\ UNCHANGED optVars /\ UNCHANGED connVars

\* startCLI, then the program under every key of the pad
NextBoot ==
    \/ newNumpadController
    \/ newConnector
    \/ newActions
    \/ (last.op \notin BootSteps /\ NextKeys)

SpecBoot == InitBoot /\ [][NextBoot]_vars

\* C33: the Connector subscribes to 'attach' after the NumpadController has
\* found its keyboard and fired 'attach'; its handler runs at the
\* subscription all the same, so that outside simulation the socket to the
\* server exists once the Connector is constructed.
C33_LateAttachSubscriberConnects ==
    (last.op \notin {"start", "new NumpadController"} /\ hidPresent
     /\ ~simulate)
    => (socket # 0 /\ nsock = 1)

C33_Witness ==
    /\ last.op = "new Connector"
    /\ attached /\ ~simulate
    /\ socket = 1 /\ openSockets = {1}


\* C34: a tick that finds the acknowledgement flag set and emits nothing on
\* the socket (the port is not open, or the program simulates) leaves the
\* flag set: only a tick whose jog was emitted makes an acknowledgement
\* outstanding.
C34_AckPendingOnlyAfterEmittedJog ==
    [][(last'.op = "jogFunction" /\ joggingAck /\ out' = <<>>)
       => joggingAck']_vars

\* C35: while a non-zero intent stands and no acknowledgement is
\* outstanding, a key event that keeps a non-zero intent does not postpone
\* the pending tick: the delay of the pending jog timeout is not longer
\* after the key event than before it.
C35_KeyEventKeepsPendingTick ==
    [][(/\ last'.op = "onUse"
        /\ joggingAck
        /\ ~isZero(axisInstructions) /\ ~isZero(axisInstructions')
        /\ smoothJoggingTimer # 0)
       => smoothJoggingTimer' <= smoothJoggingTimer]_vars

(* ------------------------- the sender's operations --------------------- *)
\* the keys that call an operation of the sender, at once or by the tick
SenderKeys == {KP_6, KP_MINUS, KP_5, TAB, KP_0, KP_PERIOD, KP_ENTER}

\* the sender's operations as the program calls them: by key, by the jog
\* tick and by the probe observer
NextSender ==
    \/ \E keyCode \in SenderKeys : onUse(keyCode)
    \/ jogFunction
    \/ \E data \in {PrbHit, PrbHit2, PrbMiss} : ProbeReport(data)
    \/ \E data \in {LineOk, LineErr15, LineErr9} : ControllerReply(data)
    \/ onConnect(HandlerSocket)
    \/ onSerialportOpen

SpecSender == Init /\ [][NextSender]_vars

\* C37: whenever the commands one step hands over put the controller in
\* relative mode (G91), the last command of that step is G90: after a key's
\* operation, a jog tick or a probe callback the distance mode sent last is
\* the absolute one.
C37_RelativeModeRestored ==
    (\E i \in DOMAIN Handed : Handed[i].code \in {"G91", "G91 G0"})
    => Handed[Len(Handed)].code = "G90"

C37_Witness ==
    /\ last.op = "serialport:read" /\ last.data = PrbHit
    /\ Len(out) = 4
    /\ out[1].code = "G91"
    /\ out[4].code = "G90"

\* C38: every offset command handed over after a probe line names a Z that
\* is a number read from a well-formed report, the line just received; a
\* bracketed PRB line whose inner fields are not three numbers yields no
\* offset command.
C38_OffsetOnlyFromWellFormedReport ==
    \A i \in DOMAIN Handed :
        Handed[i].code \in {"G10 L20 P1 Z", "G10 L20 P1 ZNaN"}
        => \E r \in ProbeReports :
              /\ r.line = last.data
              /\ Handed[i] = SetOffsetZ(Num(r.z - zProbeThickness.v))

\* C39: an ok or error:15 line that arrives while the acknowledgement flag is
\* set (no jog outstanding) changes nothing of the jog scheduler: the flag,
\* the intent, the timer and the numpad state stay as they were, so that the
\* line is not remembered.
C39_UnawaitedAckChangesNothing ==
    [][\A data \in {LineOk, LineErr15} :
          (ControllerReply(data) /\ joggingAck)
          => UNCHANGED <<actionsVars, jogSent>>]_vars

C39_Witness ==
    /\ last.op = "serialport:read" /\ last.data = LineOk
    /\ ~last.acked
    /\ joggingAck
    /\ ~isZero(axisInstructions)

====
